---- MODULE Spec2Model ----
(***************************************************************************)
(* bible-lib: the verse index built by Bible::new / Bible::parse_text and  *)
(* the query layer on top of it (get_verse, get_chapter, get_books,        *)
(* get_chapters, get_verses, get_max_verse, random_verse).                 *)
(*                                                                         *)
(* A Rust String is a sequence of characters; a character is a one-letter  *)
(* TLA+ string.  The superscript digits are written "^0" .. "^9".          *)
(***************************************************************************)
EXTENDS Integers, Sequences, FiniteSets, TLC

\* ------------------------------------------------------------------ bounds
\* The longest source text, in lines.
MaxLines == 3
\* The largest chapter number a query asks for.
MaxChapter == 2
\* The largest verse number (and range end) a query asks for.
MaxVerse == 3

\* ------------------------------------------------------ Option and Result
None == [some |-> FALSE]
Some(v) == [some |-> TRUE, val |-> v]

Ok(v) == [ok |-> TRUE, val |-> v]
Err(e) == [ok |-> FALSE, err |-> e]

\* ------------------------------------------------------------- characters
\* char::is_whitespace, restricted to the characters of the alphabet.
IsWhitespace(c) == c \in {" ", "\t"}

UpperCase == <<"A","B","C","D","E","F","G","H","I","J","K","L","M",
               "N","O","P","Q","R","S","T","U","V","W","X","Y","Z">>
LowerCase == <<"a","b","c","d","e","f","g","h","i","j","k","l","m",
               "n","o","p","q","r","s","t","u","v","w","x","y","z">>

ToLowerChar(c) ==
    IF \E i \in 1..26 : UpperCase[i] = c
    THEN LowerCase[CHOOSE i \in 1..26 : UpperCase[i] = c]
    ELSE c

\* Mutant of ToLowercase: the string is kept as written.
ToLowercase_AsWritten(s) == s

\* str::to_lowercase
ToLowercase(s) == [i \in 1..Len(s) |-> ToLowerChar(s[i])]

AsciiDigits == <<"0","1","2","3","4","5","6","7","8","9">>
SuperDigits == <<"^0","^1","^2","^3","^4","^5","^6","^7","^8","^9">>

IsDigit(c) == \E i \in 1..10 : AsciiDigits[i] = c
DigitVal(c) == (CHOOSE i \in 1..10 : AsciiDigits[i] = c) - 1

\* ---------------------------------------------------------------- strings
\* str::split(':'): n delimiters give n+1 segments, empty ones included.
RECURSIVE Split(_, _)
Split(s, d) ==
    IF \E i \in 1..Len(s) : s[i] = d
    THEN LET k == CHOOSE i \in 1..Len(s) :
                     s[i] = d /\ \A j \in 1..(i-1) : s[j] # d
         IN  <<SubSeq(s, 1, k-1)>> \o Split(SubSeq(s, k+1, Len(s)), d)
    ELSE <<s>>

\* str::split_whitespace: the maximal runs of non-whitespace characters.
RECURSIVE SplitWhitespace(_)
SplitWhitespace(s) ==
    IF s = <<>> THEN <<>>
    ELSE IF IsWhitespace(s[1]) THEN SplitWhitespace(Tail(s))
    ELSE LET stops == {i \in 1..Len(s) : IsWhitespace(s[i])}
             k == IF stops = {} THEN Len(s) + 1
                  ELSE CHOOSE i \in stops : \A j \in stops : i <= j
         IN  <<SubSeq(s, 1, k-1)>> \o SplitWhitespace(SubSeq(s, k, Len(s)))

\* [&str]::join(sep)
RECURSIVE Join(_, _)
Join(toks, sep) ==
    IF toks = <<>> THEN <<>>
    ELSE IF Len(toks) = 1 THEN toks[1]
    ELSE toks[1] \o sep \o Join(Tail(toks), sep)

\* str::trim
RECURSIVE TrimStart(_)
TrimStart(s) ==
    IF s # <<>> /\ IsWhitespace(s[1]) THEN TrimStart(Tail(s)) ELSE s

RECURSIVE TrimEnd(_)
TrimEnd(s) ==
    IF s # <<>> /\ IsWhitespace(s[Len(s)])
    THEN TrimEnd(SubSeq(s, 1, Len(s) - 1)) ELSE s

Trim(s) == TrimEnd(TrimStart(s))

\* The value of a run of digits, most significant first.
RECURSIVE DigitsValue(_)
DigitsValue(s) ==
    IF s = <<>> THEN 0
    ELSE 10 * DigitsValue(SubSeq(s, 1, Len(s) - 1)) + DigitVal(s[Len(s)])

\* The digits of u32::MAX, the largest value str::parse::<u32> accepts.
U32MaxDigits == <<"4","2","9","4","9","6","7","2","9","5">>

RECURSIVE StripZeros(_)
StripZeros(s) == IF s # <<>> /\ s[1] = "0" THEN StripZeros(Tail(s)) ELSE s

\* Whether a run of digits denotes a number above u32::MAX (the digits are
\* compared, the number itself is not computed).
ExceedsU32(s) ==
    LET d == StripZeros(s)
    IN  \/ Len(d) > Len(U32MaxDigits)
        \/ /\ Len(d) = Len(U32MaxDigits)
           /\ \E i \in 1..Len(d) :
                 /\ DigitVal(d[i]) > DigitVal(U32MaxDigits[i])
                 /\ \A j \in 1..(i-1) : d[j] = U32MaxDigits[j]

\* str::parse::<u32>: an optional '+', then one or more digits, within u32.
ParseU32(s) ==
    LET body == IF s # <<>> /\ s[1] = "+" THEN Tail(s) ELSE s
    IN  IF body = <<>> \/ \E i \in 1..Len(body) : ~IsDigit(body[i])
        THEN None
        ELSE IF ExceedsU32(body) THEN None
        ELSE Some(DigitsValue(body))

\* u32::to_string
RECURSIVE U32ToString(_)
U32ToString(n) ==
    IF n < 10 THEN <<AsciiDigits[n + 1]>>
    ELSE U32ToString(n \div 10) \o <<AsciiDigits[(n % 10) + 1]>>

\* Mutant of ReplaceSuperscript: the arm for '0' is missing, so a zero falls
\* through to `_ => c`.
ReplaceSuperscript_NoZeroArm(s) ==
    [i \in 1..Len(s) |->
        IF IsDigit(s[i]) /\ s[i] # "0" THEN SuperDigits[DigitVal(s[i]) + 1]
        ELSE s[i]]

\* Bible::replace_superscript
ReplaceSuperscript(s) ==
    [i \in 1..Len(s) |->
        IF IsDigit(s[i]) THEN SuperDigits[DigitVal(s[i]) + 1] ELSE s[i]]

\* ------------------------------------------------------- the verse index
\* HashMap::new()
EmptyMap == [k \in {} |-> k]

\* HashMap::insert on one level: a present key is overwritten.
MapInsert(m, k, v) == [x \in (DOMAIN m) \cup {k} |-> IF x = k THEN v ELSE m[x]]

\* Mutant of InsertVerse: a verse that is already present is kept
\* (entry().or_insert instead of insert).
InsertVerse_KeepFirst(vs, book, chapter, verse, text) ==
    LET vs1 == IF book \in DOMAIN vs THEN vs ELSE MapInsert(vs, book, EmptyMap)
        vs2 == IF chapter \in DOMAIN vs1[book] THEN vs1
               ELSE MapInsert(vs1, book, MapInsert(vs1[book], chapter, EmptyMap))
    IN  IF verse \in DOMAIN vs2[book][chapter] THEN vs2
        ELSE MapInsert(vs2, book,
                MapInsert(vs2[book], chapter,
                    MapInsert(vs2[book][chapter], verse, text)))

\* The three inserts that end the loop body of parse_text: missing levels are
\* created, then the verse is inserted into its chapter.
InsertVerse(vs, book, chapter, verse, text) ==
    LET vs1 == IF book \in DOMAIN vs THEN vs ELSE MapInsert(vs, book, EmptyMap)
        vs2 == IF chapter \in DOMAIN vs1[book] THEN vs1
               ELSE MapInsert(vs1, book, MapInsert(vs1[book], chapter, EmptyMap))
    IN  MapInsert(vs2, book,
            MapInsert(vs2[book], chapter,
                MapInsert(vs2[book][chapter], verse, text)))

\* The segment of the line up to its first colon (parts.next().unwrap()).
BookChapterPart(line) == Split(line, ":")[1]

\* The segment the second parts.next() yields: what lies between the first
\* colon and the next one (or the end of the line); None when the line has no
\* colon.
VerseTextPart(line) ==
    LET parts == Split(line, ":")
    IN  IF Len(parts) < 2 THEN None ELSE Some(parts[2])

\* One iteration of the loop of parse_text, up to the inserts: the (book,
\* chapter, verse, text) of the line, or None where an unwrap panics.
ParseLine(line) ==
    LET book_chapter == SplitWhitespace(BookChapterPart(line))
        count == Len(book_chapter)
        chapter == IF count = 0 THEN None ELSE ParseU32(book_chapter[count])
        book == ToLowercase(Join(SubSeq(book_chapter, 1, count - 1), <<" ">>))
        part2 == VerseTextPart(line)
        verse_text == IF part2.some THEN SplitWhitespace(part2.val) ELSE <<>>
        verse == IF verse_text = <<>> THEN None ELSE ParseU32(verse_text[1])
        text == Join(Tail(verse_text), <<" ">>)
    IN  IF ~chapter.some \/ ~part2.some \/ ~verse.some THEN None
        ELSE Some([book |-> book, chapter |-> chapter.val,
                   verse |-> verse.val, text |-> text])

\* Bible::parse_text: the lines are taken in order; None when a line panics.
RECURSIVE ParseFrom(_, _)
ParseFrom(vs, lines) ==
    IF lines = <<>> THEN Some(vs)
    ELSE LET e == ParseLine(lines[1])
         IN  IF ~e.some THEN None
             ELSE ParseFrom(InsertVerse(vs, e.val.book, e.val.chapter,
                                        e.val.verse, e.val.text),
                            Tail(lines))

ParseText(lines) == ParseFrom(EmptyMap, lines)

\* ---------------------------------------------------------------- lookups
\* BibleLookup::new: the book is lowercased, no range end.
BibleLookupNew(book, chapter, verse) ==
    [book |-> ToLowercase(book), chapter |-> chapter, verse |-> verse,
     thru_verse |-> None]

\* BibleLookup::new_range
BibleLookupNewRange(book, chapter, verse, thru_verse) ==
    [book |-> ToLowercase(book), chapter |-> chapter, verse |-> verse,
     thru_verse |-> Some(thru_verse)]

\* ---------------------------------------------------------------- queries
\* What one iteration of the range loop of get_verse pushes onto verse_text.
RangePiece(verse, text, use_superscripts) ==
    IF use_superscripts
    THEN ReplaceSuperscript(U32ToString(verse)) \o text \o <<" ">>
    ELSE text

\* Mutant of VerseRange: a verse missing from the chapter is skipped instead
\* of ending the call with VerseNotFound.
RECURSIVE VerseRange_Skip(_, _, _, _, _, _)
VerseRange_Skip(vs, lookup, verse, thru_verse, verse_text, use_superscripts) ==
    IF verse > thru_verse THEN Ok(Trim(verse_text))
    ELSE IF lookup.book \notin DOMAIN vs THEN Err("BookNotFound")
    ELSE IF lookup.chapter \notin DOMAIN vs[lookup.book]
         THEN Err("ChapterNotFound")
    ELSE IF verse \notin DOMAIN vs[lookup.book][lookup.chapter]
         THEN VerseRange_Skip(vs, lookup, verse + 1, thru_verse,
                              verse_text, use_superscripts)
    ELSE VerseRange_Skip(vs, lookup, verse + 1, thru_verse,
            verse_text \o RangePiece(verse,
                              vs[lookup.book][lookup.chapter][verse],
                              use_superscripts),
            use_superscripts)

\* The range loop of get_verse from `verse` on, verse_text being what the
\* earlier iterations have pushed.
RECURSIVE VerseRange(_, _, _, _, _, _)
VerseRange(vs, lookup, verse, thru_verse, verse_text, use_superscripts) ==
    IF verse > thru_verse THEN Ok(Trim(verse_text))
    ELSE IF lookup.book \notin DOMAIN vs THEN Err("BookNotFound")
    ELSE IF lookup.chapter \notin DOMAIN vs[lookup.book]
         THEN Err("ChapterNotFound")
    ELSE IF verse \notin DOMAIN vs[lookup.book][lookup.chapter]
         THEN Err("VerseNotFound")
    ELSE VerseRange(vs, lookup, verse + 1, thru_verse,
            verse_text \o RangePiece(verse,
                              vs[lookup.book][lookup.chapter][verse],
                              use_superscripts),
            use_superscripts)

\* Mutant of SingleVerse: chapter and verse are looked up as one chain, so a
\* missing chapter is reported as VerseNotFound.
SingleVerse_ChainedLookup(vs, lookup, use_superscripts) ==
    IF lookup.book \notin DOMAIN vs THEN Err("BookNotFound")
    ELSE IF \/ lookup.chapter \notin DOMAIN vs[lookup.book]
            \/ lookup.verse \notin DOMAIN vs[lookup.book][lookup.chapter]
         THEN Err("VerseNotFound")
    ELSE LET text == vs[lookup.book][lookup.chapter][lookup.verse]
         IN  IF use_superscripts
             THEN Ok(ReplaceSuperscript(U32ToString(lookup.verse)) \o text)
             ELSE Ok(text)

\* The single-verse half of get_verse.
SingleVerse(vs, lookup, use_superscripts) ==
    IF lookup.book \notin DOMAIN vs THEN Err("BookNotFound")
    ELSE IF lookup.chapter \notin DOMAIN vs[lookup.book]
         THEN Err("ChapterNotFound")
    ELSE IF lookup.verse \notin DOMAIN vs[lookup.book][lookup.chapter]
         THEN Err("VerseNotFound")
    ELSE LET text == vs[lookup.book][lookup.chapter][lookup.verse]
         IN  IF use_superscripts
             THEN Ok(ReplaceSuperscript(U32ToString(lookup.verse)) \o text)
             ELSE Ok(text)

\* Bible::get_verse
GetVerse(vs, lookup, use_superscripts) ==
    IF lookup.thru_verse.some
    THEN VerseRange(vs, lookup, lookup.verse, lookup.thru_verse.val, <<>>,
                    use_superscripts)
    ELSE SingleVerse(vs, lookup, use_superscripts)

\* Mutant of SortAscending: the comparison is the wrong way round.
RECURSIVE SortAscending_Descending(_)
SortAscending_Descending(S) ==
    IF S = {} THEN <<>>
    ELSE LET m == CHOOSE x \in S : \A y \in S : x >= y
         IN  <<m>> \o SortAscending_Descending(S \ {m})

\* The keys of a set in ascending order (verses.sort_by on the verse number).
RECURSIVE SortAscending(_)
SortAscending(S) ==
    IF S = {} THEN <<>>
    ELSE LET m == CHOOSE x \in S : \A y \in S : x <= y
         IN  <<m>> \o SortAscending(S \ {m})

\* The loop of get_chapter over the sorted (verse, text) pairs.
RECURSIVE ChapterText(_, _, _)
ChapterText(verses, order, use_superscripts) ==
    IF order = <<>> THEN <<>>
    ELSE LET verse == order[1]
             verse_designation == ReplaceSuperscript(U32ToString(verse))
         IN  (IF use_superscripts
              THEN verse_designation \o verses[verse] \o <<" ">>
              ELSE verses[verse] \o <<" ">>)
             \o ChapterText(verses, Tail(order), use_superscripts)

\* Bible::get_chapter: the book is looked up as given.
GetChapter(vs, book, chapter, use_superscripts) ==
    IF book \notin DOMAIN vs THEN Err("BookNotFound")
    ELSE IF chapter \notin DOMAIN vs[book] THEN Err("ChapterNotFound")
    ELSE Ok(ChapterText(vs[book][chapter],
                        SortAscending(DOMAIN vs[book][chapter]),
                        use_superscripts))

\* HashMap::keys().collect(): every key once, in an order the map chooses.
KeyVecs(m) ==
    {s \in [1..Cardinality(DOMAIN m) -> DOMAIN m] :
        \A i, j \in DOMAIN s : s[i] = s[j] => i = j}

\* Bible::get_books: the possible results.
GetBooks(vs) == KeyVecs(vs)

\* Bible::get_chapters: the possible results.
GetChapters(vs, book) ==
    IF book \in DOMAIN vs THEN {Ok(s) : s \in KeyVecs(vs[book])}
    ELSE {Err("BookNotFound")}

\* Mutant of GetVerses: the keys of the book's chapters are collected
\* instead of the keys of the chapter's verses.
GetVerses_ChapterKeys(vs, book, chapter) ==
    IF book \in DOMAIN vs /\ chapter \in DOMAIN vs[book]
    THEN {Ok(s) : s \in KeyVecs(vs[book])}
    ELSE {Err("ChapterNotFound")}

\* Bible::get_verses: the possible results.
GetVerses(vs, book, chapter) ==
    IF book \in DOMAIN vs /\ chapter \in DOMAIN vs[book]
    THEN {Ok(s) : s \in KeyVecs(vs[book][chapter])}
    ELSE {Err("ChapterNotFound")}

\* Mutant of GetMaxVerse: keys().min() instead of keys().max().
GetMaxVerse_Min(vs, book, chapter) ==
    IF book \in DOMAIN vs /\ chapter \in DOMAIN vs[book]
    THEN LET keys == DOMAIN vs[book][chapter]
         IN  IF keys # {}
             THEN Ok(CHOOSE m \in keys : \A k \in keys : m <= k)
             ELSE Err("ChapterNotFound")
    ELSE Err("ChapterNotFound")

\* Bible::get_max_verse
GetMaxVerse(vs, book, chapter) ==
    IF book \in DOMAIN vs /\ chapter \in DOMAIN vs[book]
    THEN LET keys == DOMAIN vs[book][chapter]
         IN  IF keys # {}
             THEN Ok(CHOOSE m \in keys : \A k \in keys : k <= m)
             ELSE Err("ChapterNotFound")
    ELSE Err("ChapterNotFound")

\* Mutant of RandomVerse: the chapter and the verse are drawn from the
\* chapters of a book drawn anew, not from those of the book returned.
RandomVerse_BookDrawnTwice(vs) ==
    UNION {UNION {UNION {{[book |-> book, chapter |-> chapter,
                           verse |-> verse, thru_verse |-> None]
                          : verse \in DOMAIN vs[other][chapter]}
                         : chapter \in DOMAIN vs[other]}
                  : other \in DOMAIN vs}
           : book \in DOMAIN vs}

\* Bible::random_verse: the lookups it can return, one per draw of a book, a
\* chapter of that book and a verse of that chapter.
RandomVerse(vs) ==
    UNION {UNION {{[book |-> book, chapter |-> chapter, verse |-> verse,
                    thru_verse |-> None]
                   : verse \in DOMAIN vs[book][chapter]}
                  : chapter \in DOMAIN vs[book]}
           : book \in DOMAIN vs}

\* Bible::random_verse: some draw finds no key (choose returns None), so an
\* unwrap can panic.
RandomVerseCanPanic(vs) ==
    \/ DOMAIN vs = {}
    \/ \E book \in DOMAIN vs :
          \/ DOMAIN vs[book] = {}
          \/ \E chapter \in DOMAIN vs[book] : DOMAIN vs[book][chapter] = {}

\* ------------------------------------------------------------- the inputs
\* The lines a source text is made of, in the format `Book C:V Text`:
\*   "Jo 1:1 a"        "Jo 1:2 b:c"      "jo 1:3  c<tab>d "
\*   "JO 1:1 e"        "Jo 2:10 f"       "1 Ma 0:0 g"
\* and a line that is not in the format: "Jo".
WellFormedLines ==
    { <<"J","o"," ","1",":","1"," ","a">>,
      <<"J","o"," ","1",":","2"," ","b",":","c">>,
      <<"j","o"," ","1",":","3"," "," ","c","\t","d"," ">>,
      <<"J","O"," ","1",":","1"," ","e">>,
      <<"J","o"," ","2",":","1","0"," ","f">>,
      <<"1"," ","M","a"," ","0",":","0"," ","g">> }

MalformedLines == { <<"J","o">> }

SourceLines == WellFormedLines \cup MalformedLines

\* The source texts: what str::lines yields for the text get_text returns.
SourceTexts == UNION {[1..n -> SourceLines] : n \in 0..MaxLines}

\* The book names the callers ask for.
QueryBooks == { <<"j","o">>, <<"J","o">>, <<"1"," ","m","a">> }
QueryChapters == 1..MaxChapter
QueryVerses == 1..MaxVerse
\* The verse numbers written in the lines; single lookups ask for them too.
SourceVerses == {ParseLine(line).val.verse : line \in WellFormedLines}

\* The lines of the translations Bible::new is constructed from when the
\* format of the lines is at stake. Not in the format: an empty line, "Jo"
\* (no colon), ":1 a" (nothing before the colon), "Jo:1 a" and "Jo x:1 a"
\* (no numeric chapter), "Jo 1:" (no verse number), "Jo 1:x a" and "Jo 1:1:a"
\* (the token after the colon is no number), "1:1 a" (no book token). In the
\* format: "Jo 1:1 a", "Jo 1:2 b".
NewLines ==
    { <<>>,
      <<"J","o">>,
      <<":","1"," ","a">>,
      <<"J","o",":","1"," ","a">>,
      <<"J","o"," ","x",":","1"," ","a">>,
      <<"J","o"," ","1",":">>,
      <<"J","o"," ","1",":","x"," ","a">>,
      <<"J","o"," ","1",":","1",":","a">>,
      <<"1",":","1"," ","a">>,
      <<"J","o"," ","1",":","1"," ","a">>,
      <<"J","o"," ","1",":","2"," ","b">> }

\* What str::lines yields for the texts made of these lines.
NewTexts == UNION {[1..n -> NewLines] : n \in 0..MaxLines}

\* ------------------------------------------------------------------ state
VARIABLES
    source,     \* the lines of the text of the translation
    pc,         \* "start"; then "failed" (Bible::new returned Err),
                \* "panicked", or "ready" (it returned the Bible) and
                \* "returned" (a query on it has returned)
    verses,     \* Bible::verses: book -> chapter -> verse -> text
    call,       \* the last call made and its arguments
    ret         \* what the last call returned

vars == <<source, pc, verses, call, ret>>

NoCall == [op |-> "none"]
NoRet == [ok |-> FALSE, err |-> "none"]

Init ==
    /\ source \in SourceTexts
    /\ pc = "start"
    /\ verses = EmptyMap
    /\ call = NoCall
    /\ ret = NoRet

\* Bible::new where Translation::get_text fails: the `?` returns the error.
NewGetTextErr ==
    /\ pc = "start"
    /\ \E e \in {"InvalidCustomTranslationFile", "IOError"} :
          ret' = Err(e)
    /\ pc' = "failed"
    /\ call' = [op |-> "new"]
    /\ UNCHANGED <<source, verses>>

\* Bible::new where get_text succeeds: parse_text builds the index, or an
\* unwrap in it panics and no Bible exists.
New ==
    /\ pc = "start"
    /\ LET parsed == ParseText(source)
       IN  IF parsed.some
           THEN /\ verses' = parsed.val
                /\ pc' = "ready"
                /\ ret' = Ok("Bible")
           ELSE /\ verses' = verses
                /\ pc' = "panicked"
                /\ ret' = NoRet
    /\ call' = [op |-> "new"]
    /\ UNCHANGED source

\* bible.get_verse(BibleLookup::new(book, chapter, verse), use_superscripts)
CallGetVerse ==
    /\ pc = "ready"
    /\ \E book \in QueryBooks, chapter \in QueryChapters,
          verse \in QueryVerses \cup SourceVerses,
          use_superscripts \in BOOLEAN :
          LET lookup == BibleLookupNew(book, chapter, verse)
          IN  /\ call' = [op |-> "get_verse", book |-> book,
                          lookup |-> lookup,
                          use_superscripts |-> use_superscripts]
              /\ ret' = GetVerse(verses, lookup, use_superscripts)
    /\ pc' = "returned"
    /\ UNCHANGED <<source, verses>>

\* bible.get_verse(BibleLookup::new_range(book, chapter, verse, thru_verse),
\*                 use_superscripts)
CallGetVerseRange ==
    /\ pc = "ready"
    /\ \E book \in QueryBooks, chapter \in QueryChapters,
          verse \in QueryVerses, thru_verse \in QueryVerses,
          use_superscripts \in BOOLEAN :
          LET lookup == BibleLookupNewRange(book, chapter, verse, thru_verse)
          IN  /\ call' = [op |-> "get_verse", book |-> book,
                          lookup |-> lookup,
                          use_superscripts |-> use_superscripts]
              /\ ret' = GetVerse(verses, lookup, use_superscripts)
    /\ pc' = "returned"
    /\ UNCHANGED <<source, verses>>

\* bible.get_chapter(book, chapter, use_superscripts)
CallGetChapter ==
    /\ pc = "ready"
    /\ \E book \in QueryBooks, chapter \in QueryChapters,
          use_superscripts \in BOOLEAN :
          /\ call' = [op |-> "get_chapter", book |-> book,
                      chapter |-> chapter,
                      use_superscripts |-> use_superscripts]
          /\ ret' = GetChapter(verses, book, chapter, use_superscripts)
    /\ pc' = "returned"
    /\ UNCHANGED <<source, verses>>

\* bible.get_books()
CallGetBooks ==
    /\ pc = "ready"
    /\ call' = [op |-> "get_books"]
    /\ \E books \in GetBooks(verses) : ret' = Ok(books)
    /\ pc' = "returned"
    /\ UNCHANGED <<source, verses>>

\* bible.get_chapters(book)
CallGetChapters ==
    /\ pc = "ready"
    /\ \E book \in QueryBooks :
          /\ call' = [op |-> "get_chapters", book |-> book]
          /\ ret' \in GetChapters(verses, book)
    /\ pc' = "returned"
    /\ UNCHANGED <<source, verses>>

\* bible.get_verses(book, chapter)
CallGetVerses ==
    /\ pc = "ready"
    /\ \E book \in QueryBooks, chapter \in QueryChapters :
          /\ call' = [op |-> "get_verses", book |-> book, chapter |-> chapter]
          /\ ret' \in GetVerses(verses, book, chapter)
    /\ pc' = "returned"
    /\ UNCHANGED <<source, verses>>

\* bible.get_max_verse(book, chapter)
CallGetMaxVerse ==
    /\ pc = "ready"
    /\ \E book \in QueryBooks, chapter \in QueryChapters :
          /\ call' = [op |-> "get_max_verse", book |-> book,
                      chapter |-> chapter]
          /\ ret' = GetMaxVerse(verses, book, chapter)
    /\ pc' = "returned"
    /\ UNCHANGED <<source, verses>>

\* bible.random_verse() returns a lookup.
CallRandomVerse ==
    /\ pc = "ready"
    /\ call' = [op |-> "random_verse"]
    /\ ret' \in RandomVerse(verses)
    /\ pc' = "returned"
    /\ UNCHANGED <<source, verses>>

\* bible.random_verse() panics in an unwrap.
RandomVersePanics ==
    /\ pc = "ready"
    /\ RandomVerseCanPanic(verses)
    /\ call' = [op |-> "random_verse"]
    /\ ret' = NoRet
    /\ pc' = "panicked"
    /\ UNCHANGED <<source, verses>>

\* bible.get_verse(random_verse.clone(), use_superscripts): the lookup that
\* random_verse returned is looked up.
CallGetVerseOfRandom ==
    /\ pc = "returned" /\ call.op = "random_verse"
    /\ \E use_superscripts \in BOOLEAN :
          /\ call' = [op |-> "get_verse", book |-> ret.book, lookup |-> ret,
                      use_superscripts |-> use_superscripts]
          /\ ret' = GetVerse(verses, ret, use_superscripts)
    /\ pc' = "returned"
    /\ UNCHANGED <<source, verses>>

\* The caller is done with the value a query returned (the index is borrowed
\* immutably by every query, so nothing else changes) and may call again.
DropResult ==
    /\ pc = "returned"
    /\ pc' = "ready"
    /\ call' = NoCall
    /\ ret' = NoRet
    /\ UNCHANGED <<source, verses>>

Next ==
    \/ NewGetTextErr
    \/ New
    \/ CallGetVerse
    \/ CallGetVerseRange
    \/ CallGetChapter
    \/ CallGetBooks
    \/ CallGetChapters
    \/ CallGetVerses
    \/ CallGetMaxVerse
    \/ CallRandomVerse
    \/ RandomVersePanics
    \/ CallGetVerseOfRandom
    \/ DropResult

Spec == Init /\ [][Next]_vars

\* Bible::new alone, on the texts of NewTexts.
InitNew ==
    /\ source \in NewTexts
    /\ pc = "start"
    /\ verses = EmptyMap
    /\ call = NoCall
    /\ ret = NoRet

NextNew ==
    \/ NewGetTextErr
    \/ New

SpecNew == InitNew /\ [][NextNew]_vars

\* ===================================================== the claims' terms
\* Bible::new has returned the index (no query changes it afterwards).
Built == pc = "ready"

\* A query has returned and its value is in ret.
Returned(op) == pc = "returned" /\ call.op = op

\* The elements of a vector.
Elems(s) == {s[i] : i \in DOMAIN s}

\* The (book, chapter, verse) a source line is about.
Triple(line) ==
    LET e == ParseLine(line).val IN <<e.book, e.chapter, e.verse>>

\* The triple a lookup asks for.
LookupTriple(lookup) == <<lookup.book, lookup.chapter, lookup.verse>>

\* Everything that follows the first colon of a line.
AfterFirstColon(line) ==
    LET k == CHOOSE i \in 1..Len(line) :
                 line[i] = ":" /\ \A j \in 1..(i-1) : line[j] # ":"
    IN  SubSeq(line, k + 1, Len(line))

\* Everything that follows the verse number on a line, whitespace runs
\* rejoined by single spaces, trimmed.
TextAfterVerseNumber(line) ==
    Join(Tail(SplitWhitespace(AfterFirstColon(line))), <<" ">>)

\* No two lines of the source are about the same (book, chapter, verse).
OneLinePerTriple ==
    \A i, j \in 1..Len(source) :
        Triple(source[i]) = Triple(source[j]) => i = j

\* The lookup of the last get_verse call names a present book / chapter.
BookPresent == call.lookup.book \in DOMAIN verses
ChapterPresent ==
    BookPresent /\ call.lookup.chapter \in DOMAIN verses[call.lookup.book]
VersePresent(v) ==
    ChapterPresent
    /\ v \in DOMAIN verses[call.lookup.book][call.lookup.chapter]

IsSingle == ~call.lookup.thru_verse.some
IsRange == call.lookup.thru_verse.some
\* The verse numbers the lookup of the last get_verse call covers.
Covered ==
    IF IsRange THEN call.lookup.verse .. call.lookup.thru_verse.val
    ELSE {call.lookup.verse}
\* A single lookup, or a range with start <= end.
ProperLookup == IsSingle \/ call.lookup.verse <= call.lookup.thru_verse.val

\* ================================================================ claims
\* C1: for a source with at most one line per (book, chapter, verse), the
\* single-verse get_verse without superscripts on the triple of a line returns
\* everything that follows the verse number on that line (whitespace runs
\* rejoined by single spaces, trimmed), also when that text contains a colon.
C1_VerseIsTextAfterVerseNumber ==
    (Returned("get_verse") /\ IsSingle /\ ~call.use_superscripts
        /\ OneLinePerTriple)
    => \A i \in 1..Len(source) :
          Triple(source[i]) = LookupTriple(call.lookup)
          => ret = Ok(TextAfterVerseNumber(source[i]))

\* The single-verse results for the verses a..b, joined by one space, trimmed.
SinglesJoined(book, chapter, a, b) ==
    Trim(Join([i \in 1..(b - a + 1) |->
                  GetVerse(verses, BibleLookupNew(book, chapter, a + i - 1),
                           FALSE).val],
              <<" ">>))

\* C2: a range lookup a..b (a <= b, all verses present, superscripts off)
\* returns the single-verse results for a, a+1, ..., b joined by exactly one
\* space and trimmed.
C2_RangeIsSinglesJoinedBySpace ==
    (Returned("get_verse") /\ IsRange /\ ~call.use_superscripts
        /\ call.lookup.verse <= call.lookup.thru_verse.val
        /\ \A v \in Covered : VersePresent(v))
    => ret = Ok(SinglesJoined(call.book, call.lookup.chapter,
                              call.lookup.verse, call.lookup.thru_verse.val))

\* C3: for an absent book, whatever the chapter, verse and optional range end,
\* get_verse, get_chapter and get_chapters return BookNotFound, and get_verses
\* and get_max_verse return ChapterNotFound.
C3_AbsentBookErrors ==
    /\ (Returned("get_verse") /\ ~BookPresent) => ret = Err("BookNotFound")
    /\ (pc = "returned" /\ call.op \in {"get_chapter", "get_chapters"}
           /\ call.book \notin DOMAIN verses)
       => ret = Err("BookNotFound")
    /\ (pc = "returned" /\ call.op \in {"get_verses", "get_max_verse"}
           /\ call.book \notin DOMAIN verses)
       => ret = Err("ChapterNotFound")

\* C4: get_verse (a single lookup, or a range with start <= end) reports the
\* first missing level in the order book, chapter, verse: BookNotFound when
\* the book is absent, ChapterNotFound when the book is present and the
\* chapter absent whatever the verse, and VerseNotFound only when book and
\* chapter are present and a verse asked for is absent.
C4_FirstMissingLevel ==
    (Returned("get_verse") /\ ProperLookup)
    => /\ ~BookPresent => ret = Err("BookNotFound")
       /\ (BookPresent /\ ~ChapterPresent) => ret = Err("ChapterNotFound")
       /\ ret = Err("VerseNotFound")
          <=> (ChapterPresent /\ \E v \in Covered : ~VersePresent(v))

C4_Witness ==
    /\ Returned("get_verse") /\ IsRange
    /\ call.lookup.verse < call.lookup.thru_verse.val
    /\ BookPresent /\ ~ChapterPresent
    /\ ret = Err("ChapterNotFound")

\* C5: a range lookup with start <= end in which some verse of [start, end]
\* is absent returns an error and no text (VerseNotFound when book and
\* chapter exist); it succeeds only when every verse of the range is present.
C5_NoPartialRange ==
    (Returned("get_verse") /\ IsRange
        /\ call.lookup.verse <= call.lookup.thru_verse.val)
    => /\ (\E v \in Covered : ~VersePresent(v))
          => /\ ret \in {Err("BookNotFound"), Err("ChapterNotFound"),
                         Err("VerseNotFound")}
             /\ ChapterPresent => ret = Err("VerseNotFound")
       /\ ret.ok => \A v \in Covered : VersePresent(v)

\* A range whose first and last verse are present and whose middle one is not.
C5_Witness ==
    /\ Returned("get_verse") /\ IsRange
    /\ call.lookup.thru_verse.val = call.lookup.verse + 2
    /\ VersePresent(call.lookup.verse)
    /\ ~VersePresent(call.lookup.verse + 1)
    /\ VersePresent(call.lookup.verse + 2)
    /\ ret = Err("VerseNotFound")

\* C6: get_chapter, get_chapters and get_verses accept the book in any letter
\* case: called with a name whose lowercase form is a book of the index, they
\* succeed and return what they return for the lowercase name.
C6_BookNameInAnyCase ==
    /\ (Returned("get_chapter") /\ ToLowercase(call.book) \in DOMAIN verses
           /\ call.chapter \in DOMAIN verses[ToLowercase(call.book)])
       => ret = GetChapter(verses, ToLowercase(call.book), call.chapter,
                           call.use_superscripts)
    /\ (Returned("get_chapters") /\ ToLowercase(call.book) \in DOMAIN verses)
       => ret \in GetChapters(verses, ToLowercase(call.book))
    /\ (Returned("get_verses") /\ ToLowercase(call.book) \in DOMAIN verses
           /\ call.chapter \in DOMAIN verses[ToLowercase(call.book)])
       => ret \in GetVerses(verses, ToLowercase(call.book), call.chapter)

\* The concatenation of a sequence of strings.
RECURSIVE Concat(_)
Concat(ss) == IF ss = <<>> THEN <<>> ELSE ss[1] \o Concat(Tail(ss))

\* A verse as get_chapter is to render it: its text and one space, behind its
\* superscript number when asked for.
RenderedVerse(chapterMap, v, use_superscripts) ==
    (IF use_superscripts THEN ReplaceSuperscript(U32ToString(v)) ELSE <<>>)
    \o chapterMap[v] \o <<" ">>

\* C7: for a present (book, chapter), get_chapter returns the verses of the
\* chapter, each once, in strictly ascending verse order, each followed by one
\* space (untrimmed) and, with use_superscripts, prefixed by its superscript
\* number.
C7_ChapterInAscendingOrder ==
    (Returned("get_chapter") /\ call.book \in DOMAIN verses
        /\ call.chapter \in DOMAIN verses[call.book])
    => LET chapterMap == verses[call.book][call.chapter]
       IN  \E order \in KeyVecs(chapterMap) :
              /\ \A i \in 1..(Len(order) - 1) : order[i] < order[i + 1]
              /\ ret = Ok(Concat([i \in 1..Len(order) |->
                                    RenderedVerse(chapterMap, order[i],
                                                  call.use_superscripts)]))

\* A chapter whose verses the source lists in descending order, with
\* superscripts asked for.
C7_Witness ==
    /\ Returned("get_chapter") /\ ret.ok /\ call.use_superscripts
    /\ \E i, j \in 1..Len(source) :
          /\ i < j
          /\ ParseLine(source[i]).val.book = call.book
          /\ ParseLine(source[j]).val.book = call.book
          /\ ParseLine(source[i]).val.chapter = call.chapter
          /\ ParseLine(source[j]).val.chapter = call.chapter
          /\ ParseLine(source[i]).val.verse > ParseLine(source[j]).val.verse

\* A vector lists every key of a map exactly once and nothing else.
ListsKeysOnce(vec, m) ==
    /\ Elems(vec) = DOMAIN m
    /\ \A i, j \in DOMAIN vec : vec[i] = vec[j] => i = j

\* Membership in what an enumeration returns (FALSE when it returns an error).
InBooks(b) == \E r \in GetBooks(verses) : b \in Elems(r)
InChapters(b, c) == \E r \in GetChapters(verses, b) : r.ok /\ c \in Elems(r.val)
InVerses(b, c, v) ==
    \E r \in GetVerses(verses, b, c) : r.ok /\ v \in Elems(r.val)

\* Each enumeration lists every key of its level exactly once, nothing else.
EnumerationsListKeys ==
    /\ Returned("get_books") => ListsKeysOnce(ret.val, verses)
    /\ (Returned("get_chapters") /\ ret.ok)
       => ListsKeysOnce(ret.val, verses[call.book])
    /\ (Returned("get_verses") /\ ret.ok)
       => ListsKeysOnce(ret.val, verses[call.book][call.chapter])

\* C8 as stated: get_verse(BibleLookup::new(b, c, v), false) succeeds iff b
\* is in get_books(), c in get_chapters(b) and v in get_verses(b, c); each
\* enumeration lists every key of its level exactly once and nothing else.
C8_Original ==
    /\ (Returned("get_verse") /\ IsSingle /\ ~call.use_superscripts)
       => (ret.ok <=> /\ InBooks(call.book)
                      /\ InChapters(call.book, call.lookup.chapter)
                      /\ InVerses(call.book, call.lookup.chapter,
                                  call.lookup.verse))
    /\ EnumerationsListKeys

\* C8 (amended): get_verse(BibleLookup::new(b, c, v), false) succeeds iff the
\* lowercase form of b is in get_books(), c is in get_chapters of it and v in
\* get_verses of it and c; each enumeration lists every key of its level
\* exactly once and nothing else.
C8_EnumerationsAgreeWithLookup ==
    /\ (Returned("get_verse") /\ IsSingle /\ ~call.use_superscripts)
       => (ret.ok <=> /\ InBooks(ToLowercase(call.book))
                      /\ InChapters(ToLowercase(call.book),
                                    call.lookup.chapter)
                      /\ InVerses(ToLowercase(call.book), call.lookup.chapter,
                                  call.lookup.verse))
    /\ EnumerationsListKeys

\* A successful lookup under a capitalised book name, in a book of two
\* chapters.
C8_Witness ==
    /\ Returned("get_verse") /\ IsSingle /\ ~call.use_superscripts
    /\ call.book # ToLowercase(call.book)
    /\ ret.ok
    /\ Cardinality(DOMAIN verses[call.lookup.book]) > 1

\* No character of the string is an uppercase letter.
IsLowercase(s) == \A i \in 1..Len(s) : s[i] \notin Elems(UpperCase)

\* C9 as stated: in every index built by Bible::new, every book key is
\* lowercase and every chapter key and every verse key is >= 1.
C9_Original ==
    Built => \A book \in DOMAIN verses :
                /\ IsLowercase(book)
                /\ \A chapter \in DOMAIN verses[book] :
                      /\ chapter >= 1
                      /\ \A verse \in DOMAIN verses[book][chapter] :
                            verse >= 1

\* A token that is a numeral for zero: an optional '+', then only "0"s.
IsZeroNumeral(tok) ==
    LET body == IF tok # <<>> /\ tok[1] = "+" THEN Tail(tok) ELSE tok
    IN  body # <<>> /\ \A i \in 1..Len(body) : body[i] = "0"

\* The chapter numeral and the verse numeral of a source line.
ChapterToken(line) ==
    LET toks == SplitWhitespace(BookChapterPart(line)) IN toks[Len(toks)]
VerseToken(line) == SplitWhitespace(AfterFirstColon(line))[1]

\* C9 (amended): in every index built by Bible::new every book key is
\* lowercase, and every chapter key and every verse key is >= 1 unless a line
\* of the source about that book (and chapter) writes the number as zero.
C9_KeysLowercaseAndPositiveUnlessZeroInSource ==
    Built => \A book \in DOMAIN verses :
                /\ IsLowercase(book)
                /\ \A chapter \in DOMAIN verses[book] :
                      /\ \/ chapter >= 1
                         \/ \E i \in 1..Len(source) :
                               /\ ParseLine(source[i]).val.book = book
                               /\ IsZeroNumeral(ChapterToken(source[i]))
                      /\ \A verse \in DOMAIN verses[book][chapter] :
                            \/ verse >= 1
                            \/ \E i \in 1..Len(source) :
                                  /\ ParseLine(source[i]).val.book = book
                                  /\ ParseLine(source[i]).val.chapter = chapter
                                  /\ IsZeroNumeral(VerseToken(source[i]))

\* An index with a book written in capitals in the source, holding a chapter
\* and a verse numbered zero next to ones numbered from 1.
C9_Witness ==
    /\ pc = "ready"
    /\ \E book \in DOMAIN verses :
          0 \in DOMAIN verses[book] /\ 0 \in DOMAIN verses[book][0]
    /\ \E book \in DOMAIN verses :
          /\ 1 \in DOMAIN verses[book] /\ 1 \in DOMAIN verses[book][1]
          /\ \E i \in 1..Len(source) :
                /\ ParseLine(source[i]).val.book = book
                /\ ~IsLowercase(source[i])

\* The last line of the source about the same triple as line i.
LastLineFor(i) ==
    CHOOSE j \in 1..Len(source) :
        /\ Triple(source[j]) = Triple(source[i])
        /\ \A k \in 1..Len(source) :
              Triple(source[k]) = Triple(source[i]) => k <= j

\* C10: when several lines of the source are about the same (book, chapter,
\* verse), books compared after lowercasing, the index holds for that triple
\* the text of the last such line in source order; the lines about other
\* triples are unaffected, and the index holds nothing but the triples of the
\* source.
C10_LastLineWins ==
    Built =>
       /\ \A i \in 1..Len(source) :
             LET e == ParseLine(source[i]).val
             IN  /\ e.book \in DOMAIN verses
                 /\ e.chapter \in DOMAIN verses[e.book]
                 /\ e.verse \in DOMAIN verses[e.book][e.chapter]
                 /\ verses[e.book][e.chapter][e.verse]
                       = ParseLine(source[LastLineFor(i)]).val.text
       /\ \A book \in DOMAIN verses : \A chapter \in DOMAIN verses[book] :
             \A verse \in DOMAIN verses[book][chapter] :
                \E i \in 1..Len(source) :
                   Triple(source[i]) = <<book, chapter, verse>>

\* Two lines about one triple, written in different letter case and with
\* different texts, and a line about another triple after them.
C10_Witness ==
    /\ pc = "ready"
    /\ Len(source) = 3
    /\ Triple(source[1]) = Triple(source[2])
    /\ ToLowercase(source[1]) # ToLowercase(source[2])
    /\ ParseLine(source[1]).val.text # ParseLine(source[2]).val.text
    /\ Triple(source[3]) # Triple(source[1])

\* The superscript digits, in the order of the digits 0 .. 9.
SuperscriptDigit == <<"^0","^1","^2","^3","^4","^5","^6","^7","^8","^9">>

\* The number of decimal digits of n.
RECURSIVE NumDigits(_)
NumDigits(n) == IF n < 10 THEN 1 ELSE 1 + NumDigits(n \div 10)

\* A number in superscript digits: its i-th decimal digit, most significant
\* first, replaced by the superscript digit of the same value.
SuperscriptNumber(n) ==
    [i \in 1..NumDigits(n) |->
        SuperscriptDigit[((n \div (10 ^ (NumDigits(n) - i))) % 10) + 1]]

\* The text the index holds for a verse of the chapter the last get_verse
\* call asks for.
HeldText(v) == verses[call.lookup.book][call.lookup.chapter][v]

\* C11: with use_superscripts set, get_verse prefixes a verse's text with its
\* verse number in superscript digits (digit by digit, 10 becomes ^1^0): a
\* single lookup returns the prefix immediately followed by the text, a range
\* lookup gives every verse of [start, end] its own prefix, the prefixed
\* verses separated by one space and the result trimmed; the ten digits map
\* to ten different superscript digits.
C11_SuperscriptPrefix ==
    /\ (Returned("get_verse") /\ call.use_superscripts /\ IsSingle
           /\ VersePresent(call.lookup.verse))
       => ret = Ok(SuperscriptNumber(call.lookup.verse)
                   \o HeldText(call.lookup.verse))
    /\ (Returned("get_verse") /\ call.use_superscripts /\ IsRange
           /\ call.lookup.verse <= call.lookup.thru_verse.val
           /\ \A v \in Covered : VersePresent(v))
       => LET a == call.lookup.verse
              b == call.lookup.thru_verse.val
          IN  ret = Ok(Trim(Join([i \in 1..(b - a + 1) |->
                                     SuperscriptNumber(a + i - 1)
                                     \o HeldText(a + i - 1)],
                                 <<" ">>)))
    /\ (Returned("get_verse") /\ call.use_superscripts)
       => /\ ReplaceSuperscript(AsciiDigits) = SuperscriptDigit
          /\ Cardinality(Elems(SuperscriptDigit)) = Len(AsciiDigits)

\* A single lookup of a verse with a two-digit number, superscripts set.
C11_Witness ==
    /\ Returned("get_verse") /\ call.use_superscripts /\ IsSingle
    /\ call.lookup.verse >= 10
    /\ ret.ok

\* C12: for a (book, chapter) present in the index, get_max_verse returns a
\* verse number that is a member of get_verses(book, chapter) and >= every
\* member; it returns ChapterNotFound exactly when get_verses does; and no
\* chapter of a parsed index is present but empty.
C12_MaxVerseIsGreatestListed ==
    /\ Returned("get_max_verse")
       => LET listed == GetVerses(verses, call.book, call.chapter)
          IN  /\ ret = Err("ChapterNotFound")
                 <=> listed = {Err("ChapterNotFound")}
              /\ ret # Err("ChapterNotFound")
                 => /\ ret.ok
                    /\ \A r \in listed :
                          /\ r.ok
                          /\ ret.val \in Elems(r.val)
                          /\ \A v \in Elems(r.val) : v <= ret.val
    /\ Built => \A book \in DOMAIN verses :
                   \A chapter \in DOMAIN verses[book] :
                      DOMAIN verses[book][chapter] # {}

\* The greatest verse of a chapter of several verses, where the last line of
\* the source about that chapter is not the one of the greatest verse.
C12_Witness ==
    /\ Returned("get_max_verse") /\ ret.ok
    /\ Cardinality(DOMAIN verses[call.book][call.chapter]) > 1
    /\ Len(source) > 1
    /\ LET e == ParseLine(source[Len(source)]).val
       IN  /\ e.book = call.book /\ e.chapter = call.chapter
           /\ e.verse < ret.val

\* C13: on a non-empty index random_verse returns (it panics only on an
\* index without verses), and every value it can return is a single-verse
\* lookup whose book is a key of the index, whose chapter is a key of that
\* book and whose verse is a key of that chapter, so get_verse on it succeeds.
C13_RandomVerseIsPresent ==
    /\ Returned("random_verse")
       => /\ ~ret.thru_verse.some
          /\ ret.book \in DOMAIN verses
          /\ ret.chapter \in DOMAIN verses[ret.book]
          /\ ret.verse \in DOMAIN verses[ret.book][ret.chapter]
          /\ \A use_superscripts \in BOOLEAN :
                GetVerse(verses, ret, use_superscripts).ok
    /\ (pc = "panicked" /\ call.op = "random_verse") => DOMAIN verses = {}

\* A lookup returned on an index of two books whose chapters differ.
C13_Witness ==
    /\ Returned("random_verse")
    /\ \E other \in DOMAIN verses :
          /\ other # ret.book
          /\ ret.chapter \notin DOMAIN verses[other]

\* The whitespace-separated tokens before the first colon of a line and
\* after it, as the format of the lines splits them.
TokensBeforeColon(line) ==
    LET k == CHOOSE i \in 1..Len(line) :
                 line[i] = ":" /\ \A j \in 1..(i-1) : line[j] # ":"
    IN  SplitWhitespace(SubSeq(line, 1, k - 1))

TokensAfterColon(line) == SplitWhitespace(AfterFirstColon(line))

\* An unsigned number: digits, within u32.
IsNumeral(token) ==
    /\ token # <<>>
    /\ \A i \in 1..Len(token) : IsDigit(token[i])
    /\ ~ExceedsU32(token)

\* A line that is not `<Book> <Chapter>:<Verse> <Text...>`: it has no colon,
\* or no book token, or no numeric chapter, or no numeric verse number.
Malformed(line) ==
    \/ \A i \in 1..Len(line) : line[i] # ":"
    \/ Len(TokensBeforeColon(line)) < 2
    \/ ~IsNumeral(TokensBeforeColon(line)[Len(TokensBeforeColon(line))])
    \/ TokensAfterColon(line) = <<>>
    \/ ~IsNumeral(TokensAfterColon(line)[1])

\* C14: if any line of the source is malformed (it has no colon, or its
\* book/chapter segment or its verse/text segment cannot be split and parsed
\* as required), Bible::new produces no index at all: once it has been
\* called, no Bible exists and no verse has been indexed.
C14_AbortsOnMalformedLine ==
    (pc # "start" /\ \E i \in 1..Len(source) : Malformed(source[i]))
        => (pc \in {"panicked", "failed"} /\ verses = EmptyMap)

====
